---- MODULE Spec2Model ----
(***************************************************************************)
(* Metric-learning loss engine of repr-learning: condensed-index           *)
(* arithmetic (to_condensed), the Distance implementations                 *)
(* (CosineDistance, EuclideanDistance), the triplet sampling strategies    *)
(* (BatchAll, HardestNegative, HardestPositiveNegative), the               *)
(* SemiHardNegative filter, TripletLoss.forward, the TripletLoss built by  *)
(* TripletConfig, ArcLoss.forward and the epoch callbacks of               *)
(* ClassAccuracyEvaluator.                                                 *)
(*                                                                         *)
(* Tensors (x, y, the condensed distance vector) are functions with a      *)
(* 0-based domain 0..len-1, as in the Python code.  Python lists and the   *)
(* index arrays built from them are TLA+ sequences.                        *)
(*                                                                         *)
(* Numbers.  Feature coordinates are integers counting halves (1 stands    *)
(* for 0.5).  A distance d >= 0 is represented by its exact square d^2,    *)
(* counted in quarters (1 stands for 0.25): d |-> d^2 is an order          *)
(* preserving bijection on the non-negative reals, so argmin/argmax and    *)
(* equality of distances are those of the squares, and torch.pow(d, 2) is  *)
(* the representation itself.  Margins and hinge values are counted in     *)
(* quarters too.  A reduced loss is a fraction <<num, den>> of quarters;   *)
(* den = 0 is the NaN that the mean of an empty tensor evaluates to.       *)
(***************************************************************************)
EXTENDS Integers, Sequences, FiniteSets, TLC

\* ---------------------------------------------------------------- bounds
\* rows of a batch handed to to_condensed, pdist or a sampling strategy
MaxN == 4
\* rows of a batch handed to the online forward
MaxBatch == 3
\* length of the index arrays of a to_condensed call made on its own
MaxIdxLen == 2
\* triplets of the pre-separated batches of the offline forward
MaxTriplets == 2
\* batches of one training epoch
MaxBatches == 2
\* rows of a batch handed to ArcLoss.forward
MaxSamples == 2

\* ------------------------------------------------------------ input sets
\* two classes: a strategy only tests labels for equality
Labels == {0, 1}
\* rows of dimension 2, coordinates in halves; every row has an integer norm
Rows == {<<0, 0>>, <<1, 0>>, <<0, 1>>, <<-1, 0>>}
\* margins in quarters: 0.5 and 2.0
Margins == {2, 8}
\* rows of the pre-separated batches of the offline mode
OffRows == {<<0, 0>>, <<1, 0>>, <<0, 1>>}
\* squared distances (quarters) handed to a strategy called on its own:
\* near and far, the strategies only compare distances
DistVals == {0, 1}
\* the margins, deviations and distances drawn for SemiHardNegative
FilterMargins == {1, 2}
Deviations == {0, 1}
FilterDists == 0..4
Metrics == {"cosine", "euclidean"}
Strategies == {"BatchAll", "HardestNegative", "HardestPositiveNegative"}

\* a tensor of length len over S: domain 0..len-1
Tensor(len, S) == [0..(len - 1) -> S]
Size(t) == Cardinality(DOMAIN t)
\* length of the condensed vector of a batch of n rows
CondensedLen(n) == (n * (n - 1)) \div 2
Min(a, b) == IF a <= b THEN a ELSE b
Max(a, b) == IF a >= b THEN a ELSE b

\* ------------------------------------------------------ condensed index
\* np.int64(v): truncation toward zero of the float v = twice / 2
Int64OfHalves(twice) ==
    IF twice >= 0 THEN twice \div 2 ELSE -((-twice) \div 2)

\* one element of to_condensed: i, j = min, max; then
\* np.int64(i * n - i * i / 2 - 3 * i / 2 + j - 1), '/' being float division
\* (the float value is computed in halves, then truncated)
condensed_mut_nominmax(n, i, j) ==
    Int64OfHalves(2 * i * n - i * i - 3 * i + 2 * j - 2)

condensed_mut_rowlen(n, i, j) ==
    LET lo == Min(i, j)
        hi == Max(i, j)
    IN  Int64OfHalves(2 * lo * n - lo * lo - lo + 2 * hi - 2)

condensed(n, i, j) ==
    LET lo == Min(i, j)
        hi == Max(i, j)
    IN  Int64OfHalves(2 * lo * n - lo * lo - 3 * lo + 2 * hi - 2)

\* to_condensed(n, i, j) on index arrays I, J of equal length:
\* raises ValueError if any I[k] = J[k], else maps 'condensed' elementwise
to_condensed_mut_noraise(n, I, J) ==
    [err |-> "none", k |-> [p \in 1..Len(I) |-> condensed(n, I[p], J[p])]]

to_condensed(n, I, J) ==
    IF \E p \in 1..Len(I) : I[p] = J[p]
    THEN [err |-> "ValueError", k |-> <<>>]
    ELSE [err |-> "none", k |-> [p \in 1..Len(I) |-> condensed(n, I[p], J[p])]]


\* ------------------------------------------------------------ distances
Dot(u, v) == u[1] * v[1] + u[2] * v[2]
\* exact square root; every row of Rows has a perfect-square squared norm
ISqrt(m) == CHOOSE r \in 0..m : r * r = m
Norm(u) == ISqrt(Dot(u, u))

\* (1 - F.cosine_similarity(u, v, eps=1e-8))^2 for one pair of rows, in
\* quarters.  A zero row makes the denominator eps and the numerator 0, so
\* the similarity is 0 and the distance 1.  The division is exact on Rows.
CosSq(u, v) ==
    LET den == Norm(u) * Norm(v)
    IN  IF den = 0 THEN 4
        ELSE (4 * (den - Dot(u, v)) * (den - Dot(u, v))) \div (den * den)

\* ||u - v||_2 ^ 2 for one pair of rows, in quarters
EucSq(u, v) ==
    (u[1] - v[1]) * (u[1] - v[1]) + (u[2] - v[2]) * (u[2] - v[2])

RECURSIVE SumTo(_, _)
\* sum of f[0] .. f[k-1]
SumTo(f, k) == IF k <= 0 THEN 0 ELSE SumTo(f, k - 1) + f[k - 1]
Sum(f) == SumTo(f, Size(f))

\* CosineDistance.dist(X, Y): one value per row
CosineDist(X, Y) ==
    [shape |-> <<Size(X)>>, val |-> [k \in DOMAIN X |-> CosSq(X[k], Y[k])]]

\* EuclideanDistance.dist(X, Y) = torch.dist(X, Y, p=2): the 2-norm of the
\* whole difference X - Y, a 0-dimensional tensor (shape <<>>, one value)
EuclideanDist(X, Y) ==
    [shape |-> <<>>,
     val |-> [z \in {0} |-> Sum([k \in DOMAIN X |-> EucSq(X[k], Y[k])])]]

Dist(metric, X, Y) ==
    IF metric = "cosine" THEN CosineDist(X, Y) ELSE EuclideanDist(X, Y)

\* torch.cat of two 1-D tensors
Cat(a, b) ==
    [k \in 0..(Size(a) + Size(b) - 1) |->
        IF k < Size(a) THEN a[k] ELSE b[k - Size(a)]]

\* the tensor d appended at iteration i of CosineDistance.pdist:
\* row i against rows i+1 .. nbatch-1
CosineRow_mut_fromzero(x, i) ==
    [k \in 0..(Size(x) - 2 - i) |-> CosSq(x[i], x[k])]

CosineRow(x, i) ==
    [k \in 0..(Size(x) - 2 - i) |-> CosSq(x[i], x[i + 1 + k])]

RECURSIVE CosineCat(_, _)
\* torch.cat of the tensors appended at iterations i .. nbatch-2
CosineCat(x, i) ==
    IF i >= Size(x) - 1 THEN <<>>
    ELSE Cat(CosineRow(x, i), CosineCat(x, i + 1))

\* CosineDistance.pdist(x); torch.cat of an empty list raises
CosinePdist(x) ==
    IF Size(x) - 1 <= 0
    THEN [err |-> "RuntimeError", val |-> <<>>]
    ELSE [err |-> "none", val |-> CosineCat(x, 0)]

RECURSIVE RowStart(_, _)
\* number of pairs (a, b), a < b < n, in the rows before row i of the
\* upper triangle: row a holds the n - 1 - a pairs (a, a+1) .. (a, n-1)
RowStart(n, i) == IF i <= 0 THEN 0 ELSE RowStart(n, i - 1) + (n - i)

\* position of the pair (i, j), i < j < n, in row-major upper-triangular
\* order: the position scipy and torch give the pair
Rank(n, i, j) == RowStart(n, i) + (j - i - 1)

PairAt(n, k) ==
    CHOOSE ab \in (0..(n - 1)) \X (0..(n - 1)) :
        ab[1] < ab[2] /\ Rank(n, ab[1], ab[2]) = k

\* EuclideanDistance.pdist(x) = F.pdist(x)
EuclideanPdist(x) ==
    [err |-> "none",
     val |-> [k \in 0..(CondensedLen(Size(x)) - 1) |->
                EucSq(x[PairAt(Size(x), k)[1]], x[PairAt(Size(x), k)[2]])]]

Pdist(metric, x) ==
    IF metric = "cosine" THEN CosinePdist(x) ELSE EuclideanPdist(x)

\* x[i:i+1]
Slice(x, i) == [z \in {0} |-> x[i]]

\* --------------------------------------------------- sampling strategies
\* the indices 0 .. n-1 in ascending order, which np.where(cond)[0] filters
Indices(n) == [k \in 1..n |-> k - 1]

\* np.argmin / np.argmax of a non-empty array: the first extremum
\* (position in the sequence)
ArgMin_mut_last(v) ==
    CHOOSE p \in 1..Len(v) :
        /\ \A q \in 1..Len(v) : v[p] <= v[q]
        /\ \A q \in (p + 1)..Len(v) : v[q] # v[p]

ArgMin(v) ==
    CHOOSE p \in 1..Len(v) :
        /\ \A q \in 1..Len(v) : v[p] <= v[q]
        /\ \A q \in 1..(p - 1) : v[q] # v[p]

ArgMax_mut_min(v) ==
    CHOOSE p \in 1..Len(v) :
        /\ \A q \in 1..Len(v) : v[p] <= v[q]
        /\ \A q \in 1..(p - 1) : v[q] # v[p]

ArgMax(v) ==
    CHOOSE p \in 1..Len(v) :
        /\ \A q \in 1..Len(v) : v[p] >= v[q]
        /\ \A q \in 1..(p - 1) : v[q] # v[p]

\* scipy squareform(v): the size s with s(s-1)/2 = len(v), and the dense
\* symmetric matrix with a zero diagonal
SquareSize(v) == CHOOSE s \in 1..(Size(v) + 1) : s * (s - 1) = 2 * Size(v)

Squareform(v) ==
    [i \in 0..(SquareSize(v) - 1) |->
        [j \in 0..(SquareSize(v) - 1) |->
            IF i = j THEN 0
            ELSE v[Rank(SquareSize(v), Min(i, j), Max(i, j))]]]

\* the lists a strategy returns, from the triples in the order appended
Lists(err, tr) ==
    [err |-> err,
     anchors |-> [p \in 1..Len(tr) |-> tr[p][1]],
     positives |-> [p \in 1..Len(tr) |-> tr[p][2]],
     negatives |-> [p \in 1..Len(tr) |-> tr[p][3]]]

\* BatchAll.triplets(y, distances): the three nested loops visit the
\* (anchor, positive, negative) triples in lexicographic order
BatchAll_mut_noself(y) ==
    LET n == Size(y)
        all == [t \in 1..(n * n * n) |->
                  <<(t - 1) \div (n * n), ((t - 1) \div n) % n, (t - 1) % n>>]
        keep(tr) ==
            /\ ~(y[tr[1]] # y[tr[2]])
            /\ ~(y[tr[3]] = y[tr[1]])
    IN  Lists("none", SelectSeq(all, keep))

BatchAll(y) ==
    LET n == Size(y)
        all == [t \in 1..(n * n * n) |->
                  <<(t - 1) \div (n * n), ((t - 1) \div n) % n, (t - 1) % n>>]
        keep(tr) ==
            /\ ~((tr[1] = tr[2]) \/ (y[tr[1]] # y[tr[2]]))
            /\ ~(y[tr[3]] = y[tr[1]])
    IN  Lists("none", SelectSeq(all, keep))

\* neg = np.where(y != y_anchor)[0]
NegOf(y, anchor) ==
    LET differs(j) == y[j] # y[anchor]
    IN  SelectSeq(Indices(Size(y)), differs)

\* np.where(y == y_anchor)[0]
SameOf(y, anchor) ==
    LET same(j) == y[j] = y[anchor]
    IN  SelectSeq(Indices(Size(y)), same)

\* d[idx] for a row d of the square matrix
Take(d, idx) == [p \in 1..Len(idx) |-> d[idx[p]]]

\* one iteration of HardestNegative's loop over the anchors, the anchor
\* having a negative: the triples it appends
HardestNegativeAnchor_mut_keepanchor(y, sq, anchor) ==
    LET d == sq[anchor]
        neg == NegOf(y, anchor)
        negative == neg[ArgMin(Take(d, neg))]
        pos == SameOf(y, anchor)
    IN  [p \in 1..Len(pos) |-> <<anchor, pos[p], negative>>]

HardestNegativeAnchor(y, sq, anchor) ==
    LET d == sq[anchor]
        neg == NegOf(y, anchor)
        negative == neg[ArgMin(Take(d, neg))]
        notanchor(p) == ~(p = anchor)
        pos == SelectSeq(SameOf(y, anchor), notanchor)
    IN  [p \in 1..Len(pos) |-> <<anchor, pos[p], negative>>]

RECURSIVE HardestNegativeFrom(_, _, _)
HardestNegativeFrom(y, sq, anchor) ==
    IF anchor >= Size(y) THEN <<>>
    ELSE HardestNegativeAnchor(y, sq, anchor)
            \o HardestNegativeFrom(y, sq, anchor + 1)

\* HardestNegative.triplets(y, distances): np.argmin of an empty array
\* raises ValueError at the first anchor without a negative.  With more
\* labels than rows in the square matrix, d[neg] or distances[anchor]
\* raises IndexError at the first index past the matrix.
HardestNegative(y, distances) ==
    IF \E anchor \in DOMAIN y : Len(NegOf(y, anchor)) = 0
    THEN Lists("ValueError", <<>>)
    ELSE IF Size(y) > SquareSize(distances)
    THEN Lists("IndexError", <<>>)
    ELSE Lists("none", HardestNegativeFrom(y, Squareform(distances), 0))

\* one iteration of HardestPositiveNegative's loop over the anchors
HardestPositiveNegativeAnchor(y, sq, anchor) ==
    LET d == sq[anchor]
        notanchor(p) == p # anchor
        pos == SelectSeq(SameOf(y, anchor), notanchor)
        neg == NegOf(y, anchor)
    IN  IF Len(Take(d, pos)) > 0 /\ Len(Take(d, neg)) > 0
        THEN << <<anchor, pos[ArgMax(Take(d, pos))],
                  neg[ArgMin(Take(d, neg))]>> >>
        ELSE <<>>

RECURSIVE HardestPositiveNegativeFrom(_, _, _)
HardestPositiveNegativeFrom(y, sq, anchor) ==
    IF anchor >= Size(y) THEN <<>>
    ELSE HardestPositiveNegativeAnchor(y, sq, anchor)
            \o HardestPositiveNegativeFrom(y, sq, anchor + 1)

\* with more labels than rows in the square matrix, d[pos], d[neg] or
\* distances[anchor] raises IndexError at the first index past the matrix
HardestPositiveNegative(y, distances) ==
    IF Size(y) > SquareSize(distances)
    THEN Lists("IndexError", <<>>)
    ELSE Lists("none",
               HardestPositiveNegativeFrom(y, Squareform(distances), 0))

\* SemiHardNegative(m, deviation).filter(dist_pos, dist_neg): one float per
\* entry of dist_neg, 1.0 where the loop's condition is true; dist_pos is
\* not read.  Here m, deviation and the distances are in one common unit.
SemiHardNegativeFilter(m, deviation, dist_pos, dist_neg) ==
    [err |-> "none", shape |-> <<Size(dist_neg)>>,
     val |-> [i \in DOMAIN dist_neg |->
                IF m >= dist_neg[i] \/ deviation >= dist_neg[i] - m
                THEN 1 ELSE 0]]

\* sampling.triplets(y, distances)
Triplets(strategy, y, distances) ==
    CASE strategy = "BatchAll" -> BatchAll(y)
      [] strategy = "HardestNegative" -> HardestNegative(y, distances)
      [] strategy = "HardestPositiveNegative" ->
            HardestPositiveNegative(y, distances)

\* ----------------------------------------------------------- TripletLoss
\* dist[idx]: indexing a 1-D tensor with an index array; an index outside
\* -len .. len-1 raises, a negative one counts from the end
Index(t, idx) ==
    IF \E p \in 1..Len(idx) : idx[p] >= Size(t) \/ idx[p] < -Size(t)
    THEN [err |-> "IndexError", shape |-> <<0>>, val |-> <<>>]
    ELSE [err |-> "none", shape |-> <<Len(idx)>>,
          val |-> [k \in 0..(Len(idx) - 1) |->
                     IF idx[k + 1] >= 0 THEN t[idx[k + 1]]
                     ELSE t[Size(t) + idx[k + 1]]]]

NoDist == [shape |-> <<0>>, val |-> <<>>]
NoLists == Lists("none", <<>>)

\* TripletLoss._calculate_distances(x, y)
CalculateDistances(distance, sampling, x, y) ==
    LET n == Size(x)
        dist == Pdist(distance, x)
        tr == Triplets(sampling, y, dist.val)
        pos == to_condensed(n, tr.anchors, tr.positives)
        neg == to_condensed(n, tr.anchors, tr.negatives)
        dp == Index(dist.val, pos.k)
        dn == Index(dist.val, neg.k)
        fail(e, t) == [err |-> e, triplets |-> t, dpos |-> NoDist,
                       dneg |-> NoDist]
    IN  IF dist.err # "none" THEN fail(dist.err, NoLists)
        ELSE IF tr.err # "none" THEN fail(tr.err, NoLists)
        ELSE IF pos.err # "none" THEN fail(pos.err, tr)
        ELSE IF neg.err # "none" THEN fail(neg.err, tr)
        ELSE IF dp.err # "none" THEN fail(dp.err, tr)
        ELSE IF dn.err # "none" THEN fail(dn.err, tr)
        ELSE [err |-> "none", triplets |-> tr,
              dpos |-> [shape |-> dp.shape, val |-> dp.val],
              dneg |-> [shape |-> dn.shape, val |-> dn.val]]

\* F.relu(torch.pow(dpos, 2) - torch.pow(dneg, 2) + self.margin),
\* elementwise on two tensors of the same shape (a distance is stored as
\* its square)
Hinge(dpos, dneg, margin) ==
    [shape |-> dpos.shape,
     val |-> [k \in DOMAIN dpos.val |->
                Max(0, dpos.val[k] - dneg.val[k] + margin)]]

\* loss.mean() if self.size_average else loss.sum(), as a fraction
\* <<numerator, denominator>>; the mean of an empty tensor is 0/0 = NaN
Reduce(loss, size_average) ==
    IF size_average THEN <<Sum(loss.val), Size(loss.val)>>
    ELSE <<Sum(loss.val), 1>>

NoLoss == <<0, 1>>

\* TripletLoss.forward(feat, logits, y), self.online set
ForwardOnline(margin, distance, size_average, sampling, feat, y) ==
    LET c == CalculateDistances(distance, sampling, feat, y)
        h == Hinge(c.dpos, c.dneg, margin)
    IN  IF c.err # "none"
        THEN [err |-> c.err, triplets |-> c.triplets, dpos |-> c.dpos,
              dneg |-> c.dneg, hinge |-> NoDist, loss |-> NoLoss]
        ELSE [err |-> "none", triplets |-> c.triplets, dpos |-> c.dpos,
              dneg |-> c.dneg, hinge |-> h,
              loss |-> Reduce(h, size_average)]

\* the common size of two broadcast dimensions a and b: equal, or one of
\* them 1; -1 when the shapes cannot be broadcast
BroadcastSize(a, b) ==
    IF a = b THEN a
    ELSE IF a = 1 THEN b
    ELSE IF b = 1 THEN a
    ELSE -1

\* t expanded along dimension 0 to n entries (t has n entries or one)
Expand(t, n) == IF Size(t) = n THEN t ELSE [k \in 0..(n - 1) |-> t[0]]

\* distance.dist(X, Y) on batches whose row counts may differ: torch
\* broadcasts X and Y to a common shape first and raises RuntimeError when
\* it cannot
DistBroadcast(metric, X, Y) ==
    LET n == BroadcastSize(Size(X), Size(Y))
        d == Dist(metric, Expand(X, n), Expand(Y, n))
    IN  IF n < 0 THEN [err |-> "RuntimeError", shape |-> <<0>>, val |-> <<>>]
        ELSE [err |-> "none", shape |-> d.shape, val |-> d.val]

\* a tensor of distances broadcast to n entries; a 0-d tensor stays 0-d
ExpandDist(d, n) ==
    IF d.shape = <<>> THEN [shape |-> d.shape, val |-> d.val]
    ELSE [shape |-> <<n>>, val |-> Expand(d.val, n)]

\* TripletLoss.forward(feat, logits, y), self.online not set:
\* feat = (anchors, positives, negatives); the two distance tensors are
\* broadcast against each other in the subtraction of the hinge
ForwardOffline(margin, distance, size_average, feat) ==
    LET dp == DistBroadcast(distance, feat[1], feat[2])
        dn == DistBroadcast(distance, feat[1], feat[3])
        n == BroadcastSize(Size(dp.val), Size(dn.val))
        h == Hinge(ExpandDist(dp, n), ExpandDist(dn, n), margin)
        fail == [err |-> "RuntimeError", triplets |-> NoLists,
                 dpos |-> NoDist, dneg |-> NoDist, hinge |-> NoDist,
                 loss |-> NoLoss]
    IN  IF dp.err # "none" \/ dn.err # "none" \/ n < 0 THEN fail
        ELSE [err |-> "none", triplets |-> NoLists,
              dpos |-> [shape |-> dp.shape, val |-> dp.val],
              dneg |-> [shape |-> dn.shape, val |-> dn.val],
              hinge |-> h, loss |-> Reduce(h, size_average)]

\* TripletLoss.__init__(device, margin, distance, size_average,
\* online=True, sampling=BatchAll()): the fields it stores
TripletLossFields(m, d, sa, on, smp) ==
    [margin |-> m, distance |-> d, size_average |-> sa, online |-> on,
     sampling |-> smp]

\* the loss TripletConfig.__init__(device, margin, distance, sampling)
\* builds with TripletLoss(device, margin, distance, sampling): the fourth
\* positional parameter is size_average; online and sampling keep their
\* defaults
TripletConfigLoss(m, d, smp) ==
    TripletLossFields(m, d, smp, TRUE, "BatchAll")

\* ---------------------------------------------------------------- ArcLoss
\* A normalised feature and a cosine are stored in 25ths; every row drawn
\* has an integer norm, so the divisions below are exact.  An angle in
\* [0, pi] is stored as its (cos, sin) pair in 25ths, and so is the margin.
\* A float that may be NaN is a record: nan, or the value v.
FeatRows == {<<3, 4>>, <<6, 8>>, <<5, 0>>, <<-5, 0>>, <<0, 0>>, <<-3, -4>>}
WRows == {<<0, 0>>, <<1, 0>>, <<0, 1>>, <<2, 0>>}
\* the margins 0 and atan(3/4)
ArcMargins == {<<25, 0>>, <<20, 15>>}
Scales == {1, 4}

Num(v) == [nan |-> FALSE, v |-> v]
NaN == [nan |-> TRUE, v |-> 0]
\* a - b, a + b and k * a in IEEE arithmetic: NaN in, NaN out, also 0 * NaN
FSub(a, b) == IF a.nan \/ b.nan THEN NaN ELSE Num(a.v - b.v)
FAdd(a, b) == IF a.nan \/ b.nan THEN NaN ELSE Num(a.v + b.v)
FScale(k, a) == IF a.nan THEN NaN ELSE Num(k * a.v)

\* F.normalize(t), with its defaults p=2, dim=1, eps=1e-12: every row t[k]
\* of the 2-D tensor t divided by max(||t[k]||, eps); the result in units
\* of 1/unit
Normalize(t, unit) ==
    [k \in DOMAIN t |->
        [f \in 1..Len(t[k]) |->
            IF Norm(t[k]) = 0 THEN 0
            ELSE (unit * t[k][f]) \div Norm(t[k])]]

\* torch.mm(a, b) of a (N, d) and b (d, C); b[f] is row f of b
Mm(a, b) ==
    [k \in DOMAIN a |->
        [c \in 1..Len(b[0]) |->
            Sum([f \in DOMAIN b |-> a[k][f + 1] * b[f][c]])]]

\* torch.acos of a cosine c (25ths): NaN outside [-1, 1]
Acos(c) ==
    IF c < -25 \/ c > 25 THEN [nan |-> TRUE, cos |-> 0, sin |-> 0]
    ELSE [nan |-> FALSE, cos |-> c, sin |-> ISqrt(625 - c * c)]

\* torch.cos(theta + m) = cos(theta) cos(m) - sin(theta) sin(m)
CosPlus(theta, m) ==
    IF theta.nan THEN NaN
    ELSE Num((theta.cos * m[1] - theta.sin * m[2]) \div 25)

\* ArcLoss.forward(x, y) of an ArcLoss with centre matrix w, margin m and
\* scale sc, up to the logits handed to the cross-entropy; y holds valid
\* class indices.  The cross-entropy is NaN exactly when a logit is.
ArcForward(w, m, sc, x, y) ==
    LET xnorm == Normalize(x, 25)
        Wnorm == Normalize(w, 1)
        classes == 1..Len(w[0])
        cos_theta_j == Mm(xnorm, Wnorm)
        cos_theta_yi == [k \in DOMAIN x |-> cos_theta_j[k][y[k] + 1]]
        theta_yi == [k \in DOMAIN x |-> Acos(cos_theta_yi[k])]
        cos_theta_yi_margin ==
            [k \in DOMAIN x |-> CosPlus(theta_yi[k], m)]
        one_hot ==
            [k \in DOMAIN x |->
                [c \in classes |-> IF c = y[k] + 1 THEN 1 ELSE 0]]
        diff == [k \in DOMAIN x |->
                    FSub(cos_theta_yi_margin[k], Num(cos_theta_yi[k]))]
        injected ==
            [k \in DOMAIN x |->
                [c \in classes |->
                    FAdd(Num(cos_theta_j[k][c]),
                         FScale(one_hot[k][c], diff[k]))]]
        logits ==
            [k \in DOMAIN x |->
                [c \in classes |-> FScale(sc, injected[k][c])]]
    IN  [err |-> "none", xnorm |-> xnorm, Wnorm |-> Wnorm,
         cos_theta_j |-> cos_theta_j, cos_theta_yi |-> cos_theta_yi,
         cos_theta_yi_margin |-> cos_theta_yi_margin,
         injected |-> injected, logits |-> logits,
         loss_nan |-> \E k \in DOMAIN x : \E c \in classes :
                          logits[k][c].nan]

\* ------------------------------------------------- ClassAccuracyEvaluator
\* the batch sizes and embedding rows drawn for a training batch
BatchSizes == {1, 2}
EvalRows == {<<0, 0>>, <<1, 0>>}

RECURSIVE ConcatFrom(_, _)
\* the arrays l[p], l[p+1], ... of a list joined along axis 0
ConcatFrom(l, p) ==
    IF p > Len(l) THEN <<>> ELSE Cat(l[p], ConcatFrom(l, p + 1))

\* np.concatenate(l) of a list of arrays: ValueError on an empty list
Concatenate(l) ==
    IF Len(l) = 0 THEN [err |-> "ValueError", val |-> <<>>]
    ELSE [err |-> "none", val |-> ConcatFrom(l, 1)]

\* KNNAccuracyMetric.fit(embeddings, y) = self.knn.fit(embeddings, y):
\* scikit-learn raises ValueError when the row counts differ
Fit(embeddings, y) ==
    IF Size(embeddings) # Size(y)
    THEN [err |-> "ValueError", embeddings |-> <<>>, y |-> <<>>]
    ELSE [err |-> "none", embeddings |-> embeddings, y |-> y]

NotFitted == [err |-> "none", embeddings |-> <<>>, y |-> <<>>]

\* ClassAccuracyEvaluator.on_after_epoch up to the evaluation of the test
\* loader: the first statement that raises ends the callback
OnAfterEpochResult(feats, ys) ==
    LET feat_cat == Concatenate(feats)
        y_cat == Concatenate(ys)
        fitted == Fit(feat_cat.val, y_cat.val)
        fail(e) == [err |-> e, fitted |-> NotFitted, evaluated |-> FALSE]
    IN  IF feat_cat.err # "none" THEN fail(feat_cat.err)
        ELSE IF y_cat.err # "none" THEN fail(y_cat.err)
        ELSE IF fitted.err # "none" THEN fail(fitted.err)
        ELSE [err |-> "none", fitted |-> fitted, evaluated |-> TRUE]

\* ------------------------------------------------------------------ state
\* margin, distance, size_average, online, sampling: the fields of the
\* TripletLoss object; op, args, ret: the call made and what it returned
\* or raised.  Every call of a loss, a distance or a strategy is a
\* function of its arguments and of the fields, which it does not assign,
\* so a behaviour makes one such call; only the callbacks of the evaluator
\* assign fields, and a behaviour of the evaluator is one training epoch.
VARIABLES margin, distance, size_average, online, sampling, op, args, ret
\* config: the arguments a TripletConfig was built with, if one was made;
\* W, arc_margin, s: the fields of an ArcLoss object (W = <<>> without
\* one); feat_train, y_train: the fields of a ClassAccuracyEvaluator, each
\* <<>> for None and <<l>> for the list l
VARIABLES config, W, arc_margin, s, feat_train, y_train

lossfields == <<margin, distance, size_average, online, sampling, config>>
arcfields == <<W, arc_margin, s>>
evalfields == <<feat_train, y_train>>
fields == <<lossfields, arcfields, evalfields>>
vars == <<fields, op, args, ret>>

\* no TripletConfig, no ArcLoss, no ClassAccuracyEvaluator was constructed
NoConfig == config = [made |-> FALSE]
NoArcLoss ==
    /\ W = <<>>
    /\ arc_margin = <<>>
    /\ s = 0
NoEvaluator ==
    /\ feat_train = <<>>
    /\ y_train = <<>>

NoCall ==
    /\ op = "none"
    /\ args = <<>>
    /\ ret = <<>>

\* TripletLoss.__init__; an offline loss takes no strategy and keeps the
\* default sampling=BatchAll()
Init ==
    /\ margin \in Margins
    /\ distance \in Metrics
    /\ size_average \in BOOLEAN
    /\ online \in BOOLEAN
    /\ sampling \in Strategies
    /\ ~online => sampling = "BatchAll"
    /\ NoConfig
    /\ NoArcLoss
    /\ NoEvaluator
    /\ NoCall

\* the library functions are called without a TripletLoss of their own;
\* the fields are those of the default TripletConfig
InitLibrary ==
    /\ margin = 8
    /\ distance = "euclidean"
    /\ size_average = TRUE
    /\ online = TRUE
    /\ sampling = "BatchAll"
    /\ NoConfig
    /\ NoArcLoss
    /\ NoEvaluator
    /\ NoCall

\* ArcLoss.__init__ and any training of the parameter W since
InitArc ==
    /\ W \in Tensor(2, WRows)
    /\ arc_margin \in ArcMargins
    /\ s \in Scales
    /\ margin = 8
    /\ distance = "euclidean"
    /\ size_average = TRUE
    /\ online = TRUE
    /\ sampling = "BatchAll"
    /\ NoConfig
    /\ NoEvaluator
    /\ NoCall

\* ArcLoss.forward(x, y)
CallArcForward ==
    /\ op = "none"
    /\ Size(W) > 0
    /\ \E n \in 1..MaxSamples : \E x \in Tensor(n, FeatRows) :
        \E y \in Tensor(n, Labels) :
            /\ op' = "arc_forward"
            /\ args' = [x |-> x, y |-> y]
            /\ ret' = ArcForward(W, arc_margin, s, x, y)
            /\ UNCHANGED fields

\* TripletConfig.__init__ and the TripletLoss it builds
InitConfig ==
    /\ \E m \in Margins : \E d \in Metrics : \E smp \in Strategies :
        /\ config = [made |-> TRUE, margin |-> m, distance |-> d,
                     sampling |-> smp]
        /\ margin = TripletConfigLoss(m, d, smp).margin
        /\ distance = TripletConfigLoss(m, d, smp).distance
        /\ size_average = TripletConfigLoss(m, d, smp).size_average
        /\ online = TripletConfigLoss(m, d, smp).online
        /\ sampling = TripletConfigLoss(m, d, smp).sampling
    /\ NoArcLoss
    /\ NoEvaluator
    /\ NoCall

\* forward of the TripletLoss held by a TripletConfig; its size_average is
\* a strategy object, which is true in 'if self.size_average'
CallConfigForward ==
    /\ op = "none"
    /\ config.made
    /\ online
    /\ \E n \in 1..MaxBatch : \E x \in Tensor(n, Rows) :
        \E y \in Tensor(n, Labels) :
            /\ op' = "forward"
            /\ args' = [feat |-> x, y |-> y]
            /\ ret' = ForwardOnline(margin, distance, TRUE, sampling, x, y)
            /\ UNCHANGED fields

\* to_condensed(n, i, j) with scalar i and j
CallToCondensedScalar ==
    /\ op = "none"
    /\ \E n \in 1..MaxN : \E i, j \in 0..(n - 1) :
        /\ op' = "to_condensed_scalar"
        /\ args' = [n |-> n, i |-> i, j |-> j]
        /\ ret' = to_condensed(n, <<i>>, <<j>>)
        /\ UNCHANGED fields

\* to_condensed(n, i, j) with index arrays i and j of the same length
CallToCondensed ==
    /\ op = "none"
    /\ \E n \in 1..MaxN : \E len \in 0..MaxIdxLen :
        \E I, J \in [1..len -> 0..(n - 1)] :
            /\ op' = "to_condensed"
            /\ args' = [n |-> n, i |-> I, j |-> J]
            /\ ret' = to_condensed(n, I, J)
            /\ UNCHANGED fields

\* Distance.pdist(x)
CallPdist ==
    /\ op = "none"
    /\ \E metric \in Metrics : \E n \in 1..MaxN : \E x \in Tensor(n, Rows) :
        /\ op' = "pdist"
        /\ args' = [metric |-> metric, x |-> x]
        /\ ret' = Pdist(metric, x)
        /\ UNCHANGED fields

\* Distance.dist(x, y) on two batches of the same number of rows
CallDist ==
    /\ op = "none"
    /\ \E metric \in Metrics : \E n \in 1..MaxTriplets :
        \E x, y \in Tensor(n, OffRows) :
            /\ op' = "dist"
            /\ args' = [metric |-> metric, x |-> x, y |-> y]
            /\ ret' = Dist(metric, x, y)
            /\ UNCHANGED fields

\* TripletSamplingStrategy.triplets(y, distances)
CallTriplets ==
    /\ op = "none"
    /\ \E strategy \in Strategies : \E n \in 1..MaxN :
        \E y \in Tensor(n, Labels) :
            \E distances \in Tensor(CondensedLen(n), DistVals) :
                /\ op' = "triplets"
                /\ args' = [strategy |-> strategy, y |-> y,
                            distances |-> distances]
                /\ ret' = Triplets(strategy, y, distances)
                /\ UNCHANGED fields

\* SemiHardNegative(m, deviation).filter(dist_pos, dist_neg)
CallFilter ==
    /\ op = "none"
    /\ \E m \in FilterMargins : \E deviation \in Deviations :
        \E n \in 0..MaxTriplets :
            \E dist_pos, dist_neg \in Tensor(n, FilterDists) :
                /\ op' = "filter"
                /\ args' = [m |-> m, deviation |-> deviation,
                            dist_pos |-> dist_pos, dist_neg |-> dist_neg]
                /\ ret' = SemiHardNegativeFilter(m, deviation, dist_pos,
                                                 dist_neg)
                /\ UNCHANGED fields

\* TripletLoss.forward on a feature batch and its labels
CallForwardOnline ==
    /\ op = "none"
    /\ online
    /\ \E n \in 1..MaxBatch : \E x \in Tensor(n, Rows) :
        \E y \in Tensor(n, Labels) :
            /\ op' = "forward"
            /\ args' = [feat |-> x, y |-> y]
            /\ ret' = ForwardOnline(margin, distance, size_average,
                                    sampling, x, y)
            /\ UNCHANGED fields

\* TripletLoss.forward on pre-separated triplets
CallForwardOffline ==
    /\ op = "none"
    /\ ~online
    /\ \E n \in 0..MaxTriplets :
        \E a, p, ng \in Tensor(n, OffRows) :
            /\ op' = "forward"
            /\ args' = [feat |-> <<a, p, ng>>, y |-> <<>>]
            /\ ret' = ForwardOffline(margin, distance, size_average,
                                     <<a, p, ng>>)
            /\ UNCHANGED fields

\* TripletLoss.forward on a feature batch and a label batch of another
\* length
CallForwardOnlineMismatch ==
    /\ op = "none"
    /\ online
    /\ \E n \in 1..MaxBatch : \E ny \in 0..MaxBatch :
        /\ ny # n
        /\ \E x \in Tensor(n, Rows) : \E y \in Tensor(ny, Labels) :
            /\ op' = "forward_mismatch"
            /\ args' = [feat |-> x, y |-> y]
            /\ ret' = ForwardOnline(margin, distance, size_average,
                                    sampling, x, y)
            /\ UNCHANGED fields

\* TripletLoss.forward on pre-separated anchor, positive and negative
\* batches that do not all have the same number of rows
CallForwardOfflineMismatch ==
    /\ op = "none"
    /\ ~online
    /\ \E na, np, nn \in 0..MaxTriplets :
        /\ na # np \/ na # nn
        /\ \E a \in Tensor(na, OffRows) : \E p \in Tensor(np, OffRows) :
            \E ng \in Tensor(nn, OffRows) :
                /\ op' = "forward_mismatch"
                /\ args' = [feat |-> <<a, p, ng>>, y |-> <<>>]
                /\ ret' = ForwardOffline(margin, distance, size_average,
                                         <<a, p, ng>>)
                /\ UNCHANGED fields

\* ClassAccuracyEvaluator.__init__: both lists are None
InitEvaluator ==
    /\ feat_train = <<>>
    /\ y_train = <<>>
    /\ margin = 8
    /\ distance = "euclidean"
    /\ size_average = TRUE
    /\ online = TRUE
    /\ sampling = "BatchAll"
    /\ NoConfig
    /\ NoArcLoss
    /\ NoCall

\* no callback has raised: the training loop is still running
Running == IF op = "none" THEN TRUE ELSE ret.err = "none"

\* on_before_epoch(epoch), at the start of an epoch; args becomes the log
\* of the batches the epoch has handed to on_after_gradients
OnBeforeEpoch ==
    /\ Running
    /\ op \in {"none", "on_after_epoch"}
    /\ feat_train' = << <<>> >>
    /\ y_train' = << <<>> >>
    /\ op' = "on_before_epoch"
    /\ args' = <<>>
    /\ ret' = [err |-> "none"]
    /\ UNCHANGED <<lossfields, arcfields>>

\* on_after_gradients(epoch, ibatch, feat, logits, y, loss), after every
\* batch of the epoch
OnAfterGradients ==
    /\ Running
    /\ op \in {"on_before_epoch", "on_after_gradients"}
    /\ Len(args) < MaxBatches
    /\ \E n \in BatchSizes : \E feat \in Tensor(n, EvalRows) :
        \E y \in Tensor(n, Labels) :
            /\ y_train' = << Append(y_train[1], y) >>
            /\ args' = Append(args, [feat |-> feat, y |-> y])
    /\ op' = "on_after_gradients"
    /\ ret' = [err |-> "none"]
    /\ UNCHANGED <<lossfields, arcfields, feat_train>>

\* on_after_epoch(epoch, model, loss_fn, optim, mean_loss), at the end of
\* the epoch
OnAfterEpoch ==
    /\ Running
    /\ op \in {"on_before_epoch", "on_after_gradients"}
    /\ op' = "on_after_epoch"
    /\ ret' = OnAfterEpochResult(feat_train[1], y_train[1])
    /\ UNCHANGED <<fields, args>>

NextIndex == CallToCondensedScalar \/ CallToCondensed
NextDistance == CallPdist \/ CallDist
NextSampling == CallTriplets
NextFilter == CallFilter
NextArc == CallArcForward
Next == CallForwardOnline \/ CallForwardOffline

SpecIndex == InitLibrary /\ [][NextIndex]_vars
SpecDistance == InitLibrary /\ [][NextDistance]_vars
SpecSampling == InitLibrary /\ [][NextSampling]_vars
SpecFilter == InitLibrary /\ [][NextFilter]_vars
SpecArc == InitArc /\ [][NextArc]_vars
NextShape ==
    CallForwardOnlineMismatch \/ CallForwardOfflineMismatch
SpecShape == Init /\ [][NextShape]_vars
NextConfig == CallConfigForward
SpecConfig == InitConfig /\ [][NextConfig]_vars
NextEvaluator == OnBeforeEpoch \/ OnAfterGradients \/ OnAfterEpoch
SpecEvaluator == InitEvaluator /\ [][NextEvaluator]_vars
Spec == Init /\ [][Next]_vars

\* ----------------------------------------------------------------- claims
\* the unordered pairs of distinct rows of a batch of n rows, as (i, j), i < j
Pairs(n) == {ab \in (0..(n - 1)) \X (0..(n - 1)) : ab[1] < ab[2]}
IndexCall == op \in {"to_condensed_scalar", "to_condensed"}
\* the index arrays of the call (a scalar call has arrays of one element)
ArgI == IF op = "to_condensed_scalar" THEN <<args.i>> ELSE args.i
ArgJ == IF op = "to_condensed_scalar" THEN <<args.j>> ELSE args.j

\* C1: for n >= 2 and row indices i # j, the offset returned for (i, j) is
\* the offset of (j, i) and lies in 0 .. n(n-1)/2 - 1.
C1_OffsetSymmetricInRange ==
    (/\ IndexCall
     /\ args.n >= 2
     /\ \A p \in 1..Len(ArgI) : ArgI[p] # ArgJ[p])
    => /\ ret.err = "none"
       /\ Len(ret.k) = Len(ArgI)
       /\ ret.k = to_condensed(args.n, ArgJ, ArgI).k
       /\ \A p \in 1..Len(ret.k) :
            ret.k[p] \in 0..(CondensedLen(args.n) - 1)

C1_Witness ==
    /\ op = "to_condensed_scalar"
    /\ args.n = MaxN
    /\ args.i = MaxN - 1
    /\ args.j = MaxN - 2
    /\ ret.err = "none"
    /\ ret.k = <<CondensedLen(MaxN) - 1>>

\* C2: for n >= 2 the offset restricted to pairs i < j is a bijection onto
\* 0 .. n(n-1)/2 - 1: equal offsets come from the same unordered pair only,
\* and every offset is the image of exactly one pair.
C2_OffsetBijection ==
    (IndexCall /\ args.n >= 2 /\ ret.err = "none")
    => /\ \A p, q \in 1..Len(ret.k) :
            ret.k[p] = ret.k[q]
            => {ArgI[p], ArgJ[p]} = {ArgI[q], ArgJ[q]}
       /\ \A p \in 1..Len(ret.k) : \A ab \in Pairs(args.n) :
            to_condensed(args.n, <<ab[1]>>, <<ab[2]>>).k[1] = ret.k[p]
            => {ab[1], ab[2]} = {ArgI[p], ArgJ[p]}
       /\ \A k \in 0..(CondensedLen(args.n) - 1) :
            Cardinality({ab \in Pairs(args.n) :
                to_condensed(args.n, <<ab[1]>>, <<ab[2]>>).k[1] = k}) = 1

C2_Witness ==
    /\ op = "to_condensed"
    /\ args.n = MaxN
    /\ Len(args.i) = 2
    /\ args.i[1] < args.j[1]
    /\ args.i[2] < args.j[2]
    /\ args.i[1] + 1 = args.i[2]
    /\ args.j[1] = MaxN - 1
    /\ ret.err = "none"
    /\ ret.k[1] + 1 = ret.k[2]

\* C4: a lookup in which some requested pair has i = j raises the domain
\* error, for scalar and for batched indices, and returns no offset.
C4_EqualIndicesRaise ==
    (IndexCall /\ \E p \in 1..Len(ArgI) : ArgI[p] = ArgJ[p])
    => ret.err = "ValueError" /\ ret.k = <<>>

C4_Witness ==
    /\ op = "to_condensed"
    /\ Len(args.i) = 2
    /\ args.i[1] # args.j[1]
    /\ args.i[2] = args.j[2]
    /\ ret.err = "ValueError"

\* C3: for a batch x of n rows and rows i # j, the element of pdist(x) at
\* offset(n, i, j) is dist(x[i:i+1], x[j:j+1]); the condensed vector has
\* n(n-1)/2 elements, and CosineDistance's is the concatenation, for
\* i = 0 .. n-2, of the distances of row i to rows i+1 .. n-1.
C3_PdistAgreesWithDist ==
    (op = "pdist" /\ Size(args.x) >= 2)
    => /\ ret.err = "none"
       /\ Size(ret.val) = CondensedLen(Size(args.x))
       /\ \A i, j \in DOMAIN args.x :
            i # j
            => LET k == to_condensed(Size(args.x), <<i>>, <<j>>).k[1]
                   d == Dist(args.metric, Slice(args.x, i), Slice(args.x, j))
               IN  /\ k \in DOMAIN ret.val
                   /\ Size(d.val) = 1
                   /\ ret.val[k] = d.val[0]

C3_Witness ==
    /\ op = "pdist"
    /\ args.metric = "cosine"
    /\ Size(args.x) = MaxN
    /\ ret.err = "none"
    /\ ret.val[0] = 0
    /\ ret.val[1] = 4
    /\ ret.val[MaxN - 2] = 16

\* the triples a triplets call returned, in order
Returned ==
    [p \in 1..Len(ret.anchors) |->
        <<ret.anchors[p], ret.positives[p], ret.negatives[p]>>]
EqualLengths ==
    /\ Len(ret.anchors) = Len(ret.positives)
    /\ Len(ret.anchors) = Len(ret.negatives)
\* the labels [0, 0, 1]
Y001 == [k \in 0..2 |-> IF k = 2 THEN 1 ELSE 0]

\* C5: BatchAll.triplets returns exactly the index triples (a, p, n) with
\* a # p, y[a] = y[p] and y[n] # y[a], each once; labels [0, 0, 1] give
\* exactly (0, 1, 2) and (1, 0, 2).
C5_BatchAllExact ==
    (op = "triplets" /\ args.strategy = "BatchAll")
    => LET y == args.y
           expected == {t \in (DOMAIN y) \X (DOMAIN y) \X (DOMAIN y) :
                           /\ t[1] # t[2]
                           /\ y[t[1]] = y[t[2]]
                           /\ y[t[3]] # y[t[1]]}
       IN  /\ ret.err = "none"
           /\ EqualLengths
           /\ {Returned[p] : p \in 1..Len(Returned)} = expected
           /\ Len(Returned) = Cardinality(expected)
           /\ y = Y001
              => /\ Len(Returned) = 2
                 /\ {Returned[1], Returned[2]} = {<<0, 1, 2>>, <<1, 0, 2>>}

C5_Witness ==
    /\ op = "triplets"
    /\ args.strategy = "BatchAll"
    /\ args.y = Y001
    /\ ret.err = "none"
    /\ ret.anchors = <<0, 1>>
    /\ ret.positives = <<1, 0>>
    /\ ret.negatives = <<2, 2>>

\* C6: every triplet (a, p, n) returned by BatchAll, HardestNegative or
\* HardestPositiveNegative has a # p, a # n, label(a) = label(p) and
\* label(n) # label(a), and the three returned lists have equal length.
C6_TripletsWellFormed ==
    (op = "triplets" /\ ret.err = "none")
    => /\ EqualLengths
       /\ \A q \in 1..Len(ret.anchors) :
            LET a == ret.anchors[q]
                p == ret.positives[q]
                ng == ret.negatives[q]
            IN  /\ {a, p, ng} \subseteq DOMAIN args.y
                /\ a # p
                /\ a # ng
                /\ args.y[a] = args.y[p]
                /\ args.y[ng] # args.y[a]

C6_Witness ==
    /\ op = "triplets"
    /\ args.strategy = "HardestNegative"
    /\ Size(args.y) = MaxN
    /\ ret.err = "none"
    /\ Len(ret.anchors) >= MaxN
    /\ \E q \in 1..Len(ret.anchors) : ret.anchors[q] > ret.positives[q]

\* the distance between rows a and j recorded in the condensed vector
\* handed to the strategy
DistanceTo(a, j) == args.distances[condensed(Size(args.y), a, j)]
\* the different-label sample closest to anchor a, lowest index on a tie
IsHardestNegative(a, j) ==
    /\ args.y[j] # args.y[a]
    /\ \A m \in DOMAIN args.y :
         args.y[m] # args.y[a]
         => \/ DistanceTo(a, j) < DistanceTo(a, m)
            \/ DistanceTo(a, j) = DistanceTo(a, m) /\ j <= m

\* C10: HardestNegative.triplets, for every anchor with a sample of another
\* label, takes as negative the different-label sample of minimum distance
\* to the anchor, the lowest index on a tie, and emits one triplet with
\* that negative for every same-label sample other than the anchor.
C10_HardestNegativeChoice ==
    (op = "triplets" /\ args.strategy = "HardestNegative")
    => \A a \in DOMAIN args.y :
         (\E j \in DOMAIN args.y : args.y[j] # args.y[a])
         => /\ ret.err = "none"
            /\ EqualLengths
            /\ \A q \in 1..Len(ret.anchors) :
                 ret.anchors[q] = a => IsHardestNegative(a, ret.negatives[q])
            /\ \A p \in DOMAIN args.y :
                 Cardinality({q \in 1..Len(ret.anchors) :
                     ret.anchors[q] = a /\ ret.positives[q] = p})
                 = IF p # a /\ args.y[p] = args.y[a] THEN 1 ELSE 0

C10_Witness ==
    /\ op = "triplets"
    /\ args.strategy = "HardestNegative"
    /\ ret.err = "none"
    /\ \E q \in 1..Len(ret.anchors) : \E m \in DOMAIN args.y :
         /\ m > ret.negatives[q]
         /\ args.y[m] # args.y[ret.anchors[q]]
         /\ DistanceTo(ret.anchors[q], m)
              = DistanceTo(ret.anchors[q], ret.negatives[q])
         /\ DistanceTo(ret.anchors[q], m)
              < DistanceTo(ret.anchors[q], ret.positives[q])

\* a reduced loss that is the number zero
ZeroLoss(l) == l[1] = 0 /\ l[2] > 0

\* C7: a batch of at least two rows whose labels are all identical, given
\* to the online loss with HardestNegative, yields the loss zero and does
\* not raise.
C7_IdenticalLabelsZeroLoss ==
    (/\ op = "forward"
     /\ online
     /\ sampling = "HardestNegative"
     /\ Size(args.y) >= 2
     /\ \A i, j \in DOMAIN args.y : args.y[i] = args.y[j])
    => ret.err = "none" /\ ZeroLoss(ret.loss)

\* C8: when the strategy returns zero triplets, forward returns the loss
\* zero with size_average set (mean) and unset (sum).
C8_NoTripletsZeroLoss ==
    (/\ op = "forward"
     /\ online
     /\ ret.err = "none"
     /\ Len(ret.triplets.anchors) = 0)
    => ZeroLoss(ret.loss)

\* the squared distance between two rows under the configured distance
PairSq(u, v) == IF distance = "cosine" THEN CosSq(u, v) ELSE EucSq(u, v)
\* the number of triplets of a forward call
TripletCount ==
    IF online THEN Len(ret.triplets.anchors) ELSE Size(args.feat[1])
\* max(0, dpos^2 - dneg^2 + margin) of the k-th triplet, k = 1 .. count
PerTriplet(k) ==
    LET dp == IF online
              THEN PairSq(args.feat[ret.triplets.anchors[k]],
                          args.feat[ret.triplets.positives[k]])
              ELSE PairSq(args.feat[1][k - 1], args.feat[2][k - 1])
        dn == IF online
              THEN PairSq(args.feat[ret.triplets.anchors[k]],
                          args.feat[ret.triplets.negatives[k]])
              ELSE PairSq(args.feat[1][k - 1], args.feat[3][k - 1])
    IN  Max(0, dp - dn + margin)
PerTripletTotal ==
    Sum([k \in 0..(TripletCount - 1) |-> PerTriplet(k + 1)])

\* C9: online and offline, forward returns the reduction of the per-triplet
\* values max(0, dpos^2 - dneg^2 + margin) over the selected triplets (at
\* least one): their mean with size_average, their sum without.
C9_LossIsReductionOfHinges ==
    (op = "forward" /\ ret.err = "none" /\ TripletCount > 0)
    => /\ ret.loss[2] > 0
       /\ ret.loss[1] * (IF size_average THEN TripletCount ELSE 1)
            = PerTripletTotal * ret.loss[2]
       /\ Size(ret.hinge.val) = TripletCount
       /\ \A k \in 1..TripletCount : ret.hinge.val[k - 1] = PerTriplet(k)

\* C11: HardestPositiveNegative.triplets raises no error; it emits exactly
\* one triplet for every anchor that has both another sample of its label
\* and a sample of a different label, whose positive is a same-label sample
\* of maximum distance and whose negative a different-label sample of
\* minimum distance; it emits no triplet for an anchor lacking either.
C11_HardestPositiveNegativeChoice ==
    (op = "triplets" /\ args.strategy = "HardestPositiveNegative")
    => /\ ret.err = "none"
       /\ EqualLengths
       /\ \A a \in DOMAIN args.y :
            LET y == args.y
                same == {p \in DOMAIN y : p # a /\ y[p] = y[a]}
                other == {j \in DOMAIN y : y[j] # y[a]}
                emitted == {q \in 1..Len(ret.anchors) : ret.anchors[q] = a}
            IN  /\ Cardinality(emitted)
                     = IF same # {} /\ other # {} THEN 1 ELSE 0
                /\ \A q \in emitted :
                     /\ ret.positives[q] \in same
                     /\ \A p \in same :
                          DistanceTo(a, p) <= DistanceTo(a, ret.positives[q])
                     /\ ret.negatives[q] \in other
                     /\ \A j \in other :
                          DistanceTo(a, ret.negatives[q]) <= DistanceTo(a, j)

\* a label with a single member, whose anchor is left out, in a batch where
\* another anchor has two positives at different distances
C11_Witness ==
    /\ op = "triplets"
    /\ args.strategy = "HardestPositiveNegative"
    /\ ret.err = "none"
    /\ \E a \in DOMAIN args.y :
         /\ \A p \in DOMAIN args.y : p # a => args.y[p] # args.y[a]
         /\ \A q \in 1..Len(ret.anchors) : ret.anchors[q] # a
    /\ \E q \in 1..Len(ret.anchors) : \E p \in DOMAIN args.y :
         /\ p # ret.anchors[q]
         /\ args.y[p] = args.y[ret.anchors[q]]
         /\ DistanceTo(ret.anchors[q], p)
              < DistanceTo(ret.anchors[q], ret.positives[q])

\* C12: SemiHardNegative.filter returns a keep mask with one entry per
\* input distance, and entry k is set exactly when dist_neg[k] exceeds
\* dist_pos[k] by at least m and at most m + deviation.
C12_SemiHardKeepMask ==
    op = "filter"
    => /\ ret.err = "none"
       /\ Size(ret.val) = Size(args.dist_neg)
       /\ \A k \in DOMAIN ret.val :
            ret.val[k] = 1
            <=> /\ args.dist_pos[k] + args.m <= args.dist_neg[k]
                /\ args.dist_neg[k]
                     <= args.dist_pos[k] + args.m + args.deviation

\* C13: for both CosineDistance and EuclideanDistance, dist(x, y) on two
\* batches of N rows returns N values, and value k is the distance between
\* x[k] and y[k].
C13_DistIsPerRow ==
    op = "dist"
    => /\ ret.shape = <<Size(args.x)>>
       /\ Size(ret.val) = Size(args.x)
       /\ \A k \in DOMAIN args.x :
            ret.val[k] = IF args.metric = "cosine"
                         THEN CosSq(args.x[k], args.y[k])
                         ELSE EucSq(args.x[k], args.y[k])

\* the rows of an ArcLoss.forward call
ArcRows == DOMAIN args.x

\* C14: in ArcLoss.forward the argument of arccos, the cosine of every
\* sample to its own label's class centre after the clamp, lies in
\* [-1 + eps, 1 - eps] for an eps > 0, hence strictly inside (-1, 1).
C14_AcosArgumentClamped ==
    op = "arc_forward"
    => \A k \in ArcRows :
         ret.cos_theta_yi[k] > -25 /\ ret.cos_theta_yi[k] < 25

\* C15: in ArcLoss.forward the margin injection changes, for every sample
\* k, only the entry in column y[k] of the cosine matrix, which becomes
\* cos(theta + m); every entry (k, c) with c # y[k] keeps its value.
C15_InjectionChangesTargetOnly ==
    op = "arc_forward"
    => \A k \in ArcRows : \A c \in 1..Len(ret.cos_theta_j[k]) :
         ret.injected[k][c]
           = IF c = args.y[k] + 1 THEN ret.cos_theta_yi_margin[k]
             ELSE Num(ret.cos_theta_j[k][c])

\* C16: with margin 0 and scale 1 the logits handed to the cross-entropy
\* equal the cosine matrix before the margin injection.
C16_ZeroMarginUnitScaleIsCosine ==
    (op = "arc_forward" /\ arc_margin = <<25, 0>> /\ s = 1)
    => \A k \in ArcRows : \A c \in 1..Len(ret.cos_theta_j[k]) :
         ret.logits[k][c] = Num(ret.cos_theta_j[k][c])

\* column c of a (d, C) matrix, as a row
Column(w, c) == [f \in 1..Size(w) |-> w[f - 1][c]]

\* C17: ArcLoss.forward L2-normalises every feature row and every column
\* of W: a non-zero feature row and a non-zero class-centre column get
\* unit norm, and every entry of the product lies in [-1, 1].
C17_CentresNormalised ==
    op = "arc_forward"
    => /\ \A k \in ArcRows :
            Dot(args.x[k], args.x[k]) # 0
            => Dot(ret.xnorm[k], ret.xnorm[k]) = 625
       /\ \A c \in 1..Len(W[0]) :
            Dot(Column(W, c), Column(W, c)) # 0
            => Dot(Column(ret.Wnorm, c), Column(ret.Wnorm, c)) = 1
       /\ \A k \in ArcRows : \A c \in 1..Len(ret.cos_theta_j[k]) :
            ret.cos_theta_j[k][c] >= -25 /\ ret.cos_theta_j[k][c] <= 25

\* C18: TripletLoss.forward raises an error, and computes no loss, when
\* the feature batch and the label batch differ in length (online) or the
\* anchor, positive and negative batches differ in row count (offline).
C18_ShapeMismatchRaises ==
    op = "forward_mismatch" => ret.err # "none"

\* C19: the TripletLoss of a TripletConfig built with strategy S selects
\* the triplets of its online forward with S, and its reduction mode is a
\* mean/sum setting, not the strategy object.
C19_ConfigUsesItsStrategy ==
    (op = "forward" /\ config.made)
    => /\ sampling = config.sampling
       /\ size_average \notin Strategies
       /\ ret.err = "none"
          => ret.triplets
               = Triplets(config.sampling, args.y,
                          Pdist(distance, args.feat).val)

\* the embeddings and the labels of the batches of the epoch, in order
SeenFeat == ConcatFrom([p \in 1..Len(args) |-> args[p].feat], 1)
SeenY == ConcatFrom([p \in 1..Len(args) |-> args[p].y], 1)

\* C20: after on_before_epoch and one or more on_after_gradients calls,
\* on_after_epoch does not fail, fits the metric with the embeddings and
\* the labels of every batch of the epoch, the two having the same number
\* of rows, and goes on to evaluate the test loader.
C20_EpochFitsEveryBatch ==
    (op = "on_after_epoch" /\ Len(args) >= 1)
    => /\ ret.err = "none"
       /\ ret.evaluated
       /\ ret.fitted.embeddings = SeenFeat
       /\ ret.fitted.y = SeenY
       /\ Size(ret.fitted.embeddings) = Size(ret.fitted.y)

====
